---- MODULE Spec2Model ----
(***************************************************************************)
(* A model of the conversational-state engine of src/bot.py: the per-      *)
(* channel session log kept in Redis (load_channel, flush_channel,         *)
(* save_message), the /reset command (reset_command), the chat             *)
(* orchestration (chat) and the outbound chunker (DiscordResponse.write).  *)
(*                                                                         *)
(* The bot runs on one asyncio event loop: a coroutine runs without        *)
(* interruption from one await to the next, so every action below is the   *)
(* code between two awaits of one task, together with the effect of the    *)
(* awaited command.  Texts are sequences of one-character strings.         *)
(***************************************************************************)
EXTENDS Integers, Sequences, FiniteSets, TLC

(***************************************************************************)
(* Bounds of the model.                                                    *)
(***************************************************************************)
\* operations started in one behaviour of one task after another
MaxSeqOps == 3
\* Redis commands that raise in one behaviour
MaxFailures == 1
\* largest configured chat_max_length
MaxChatMaxLength == 2
\* store operations in one behaviour over a store with unreadable values
MaxStoreOps == 2
\* chat calls in one behaviour, one after another
MaxChatOps == 1
\* parts the backend streams in one call
MaxParts == 2

\* the slots of concurrently running handler tasks
Tasks == {1, 2}
\* the channels (Redis keys discollama:channel:<id>)
Channels == {1, 2}

Roles == {"user", "assistant"}

\* characters str.strip() removes
Whitespace == {" ", "\n", "\t"}

\* the messages handed to save_message by the handlers: a short one, a blank
\* one, one longer than the smaller cap
Messages == {<<"a">>, <<" ">>, <<"a", " ", " ">>}
\* ... and those of the concurrent tasks
FewMessages == {<<"a">>, <<"b">>}

\* the configured per-turn caps (msg_max_chars)
MsgMaxCharsChoices == {2, 3}

\* the configured context sizes (ctx): smaller than one stored turn, room for
\* one turn, the default
CtxChoices == {8, 10, 4096}

\* the texts a backend call answers with: none, a blank one, a reply
Texts == {<<>>, <<" ">>, <<"h", "i">>}
\* ... and the contents of the parts of a streamed answer
Chunks == {<<>>, <<" ">>, <<"h">>}

\* the configured admin ids ("" is: not configured) and the requesters
AdminIds == {"", "42"}
UserIds == {"42", "7"}

(***************************************************************************)
(* State.                                                                  *)
(***************************************************************************)
VARIABLES
    chat_max_length,  \* self.chat_max_length
    msg_max_chars,    \* self.msg_max_chars
    admin_id,         \* self.admin_id
    ctx,              \* self.ctx
    stream,           \* self.stream
    backend,          \* self.backend
    store,            \* Redis: channel -> <<>> (no key), <<list of turns>> or
                      \* Corrupt
    task,             \* the handler tasks: position and local variables
    budget,           \* history: operations that may still start
    nfail,            \* history: Redis commands that raised so far
    last,             \* history: per channel, the task whose SET/DEL came last
    hist,             \* history: per channel, the turns appended one after
                      \* another, the newest chat_max_length of them
    napp              \* history: per channel, how many these were

\* the configuration, fixed when the Bot is constructed
config == <<chat_max_length, msg_max_chars, admin_id, ctx, stream, backend>>

vars == <<config, store, task, budget, nfail, last, hist, napp>>

(***************************************************************************)
(* Pure helpers of save_message.                                           *)
(***************************************************************************)
RECURSIVE lstrip(_)
lstrip(s) == IF s # <<>> /\ Head(s) \in Whitespace THEN lstrip(Tail(s)) ELSE s

RECURSIVE rstrip(_)
rstrip(s) ==
    IF s # <<>> /\ s[Len(s)] \in Whitespace
    THEN rstrip(SubSeq(s, 1, Len(s) - 1)) ELSE s

\* str.strip()
strip(s) == rstrip(lstrip(s))

\* content_str[-self.msg_max_chars:] when len(content_str) > self.msg_max_chars
CapLoseTail(s, cap) == IF Len(s) > cap THEN SubSeq(s, 1, cap) ELSE s
Cap(s, cap) == IF Len(s) > cap THEN SubSeq(s, Len(s) - cap + 1, Len(s)) ELSE s

\* content = {'role': role, 'content': content_str}
Turn(role, content) == [role |-> role, content |-> content]

\* while len(messages) >= self.chat_max_length: messages.pop(0)
RECURSIVE EvictOneTooFew(_, _)
EvictOneTooFew(messages, max) ==
    IF Len(messages) > max THEN EvictOneTooFew(Tail(messages), max) ELSE messages
RECURSIVE EvictNewest(_, _)
EvictNewest(messages, max) ==
    IF Len(messages) >= max
    THEN EvictNewest(SubSeq(messages, 1, Len(messages) - 1), max) ELSE messages
RECURSIVE Evict(_, _)
Evict(messages, max) ==
    IF Len(messages) >= max THEN Evict(Tail(messages), max) ELSE messages

\* the seed turn's content: '*You joined the chat! - You joined <guild>.*'
SeedGreeting == <<"*", "J", "*">>

\* a stored value that json.loads rejects
Corrupt == <<"not", "json">>

\* json.loads(redis_content) if redis_content else [], and [] from the
\* except clause of load_channel when json.loads raises
Loaded(c) == IF Len(store[c]) # 1 THEN <<>> ELSE store[c][1]

(***************************************************************************)
(* Tasks.                                                                  *)
(***************************************************************************)
IdleTask ==
    [op |-> "idle", pc |-> "idle",
     chan |-> 1, hasChan |-> TRUE, user |-> "",
     content |-> <<>>, role |-> "user", messages |-> <<>>, ret |-> "done",
     given |-> <<>>,
     reply |-> "none", sendfail |-> FALSE,
     raw |-> <<>>, rare |-> FALSE, text |-> <<>>, stage |-> "", ended |-> "",
     typing |-> "none",
     local_messages |-> <<>>, response_message |-> <<>>, retval |-> <<>>,
     \* history of this operation
     flushed |-> FALSE, persisted |-> FALSE, failed |-> FALSE,
     value |-> <<>>, message_remaining |-> <<>>, i |-> 0, done |-> FALSE,
     referenced |-> FALSE, split_index |-> 0, chunk_to_send |-> <<>>,
     sent |-> <<>>, skipped |-> <<>>, prev |-> <<>>,
     nparts |-> 0, outcome |-> "none", produced |-> <<>>,
     ncalls |-> 0, nsaved |-> 0, nuser |-> 0,
     early |-> FALSE, late |-> FALSE, pre |-> <<>>]

\* the task is between its first and its last step
InFlight(u) == task[u].pc \notin {"idle", "done", "raised"}

\* the other tasks in flight on channel c
Others(t, c) ==
    {u \in Tasks \ {t} : InFlight(u) /\ task[u].hasChan /\ task[u].chan = c}

\* another operation was in flight on the task's channel after the task
\* started (early: when it started; late: one that started after it)
Overlap(u) == task[u].early \/ task[u].late

\* asyncio starts a handler task in slot t, free once the slot's last task has
\* ended: rec is the new task's record after its first step
Launch(t, rec) ==
    /\ ~InFlight(t)
    /\ budget > 0
    /\ budget' = budget - 1
    /\ task' = [u \in Tasks |->
                  IF u = t
                  THEN [rec EXCEPT !.early = rec.hasChan /\ Others(t, rec.chan) # {}]
                  ELSE IF /\ task[u].pc # "idle" /\ task[u].hasChan
                          /\ rec.hasChan /\ task[u].chan = rec.chan
                       THEN [task[u] EXCEPT !.late = TRUE]
                       ELSE task[u]]

\* one step of task t alone
Step(t, rec) == task' = [task EXCEPT ![t] = rec]

\* the call save_message(channel_id, message, role), up to its first await;
\* ret is where the caller goes on when save_message returns (history: given
\* is the message as it was handed over)
CallSave(rec, c, message, role, ret) ==
    IF strip(message) = <<>>
    THEN [rec EXCEPT !.pc = ret, !.given = message,
                     !.nuser = IF role = "user" THEN @ + 1 ELSE @]
    ELSE [rec EXCEPT !.pc = "save_load", !.chan = c, !.given = message,
                     !.content = Cap(message, msg_max_chars),
                     !.role = role, !.ret = ret,
                     !.nuser = IF role = "user" THEN @ + 1 ELSE @]

\* the newest n elements of a sequence
LastN(s, n) == IF Len(s) > n THEN SubSeq(s, Len(s) - n + 1, Len(s)) ELSE s

\* history: an append that ran alone and without failure has completed
Record(c, turn) ==
    /\ hist' = [hist EXCEPT ![c] = LastN(Append(@, turn), chat_max_length)]
    /\ napp' = [napp EXCEPT ![c] = @ + 1]

\* history: the channel was flushed, or written by overlapping or failing
\* operations
Forget(c) ==
    /\ hist' = [hist EXCEPT ![c] = <<>>]
    /\ napp' = [napp EXCEPT ![c] = 0]

\* a Redis command of task t raises (logged and swallowed by its caller)
Raises == nfail < MaxFailures /\ nfail' = nfail + 1

(***************************************************************************)
(* DiscordResponse.write: sanitize the text and send it in segments.       *)
(***************************************************************************)
\* the largest text sent as one message, and the cut of a longer one
SegmentLimit == 2000
\* the segments one call sends at most
MaxChunks == 10

\* '​', one character
ZeroWidthSpace == "u+200b"

Everyone ==
    << "@", "e", "v", "e", "r", "y", "o", "n", "e" >>
Here ==
    << "@", "h", "e", "r", "e" >>
DigitChars == {"0", "1", "2", "3", "4", "5", "6", "7", "8", "9"}

\* "*I don't have anything to say.*"
NothingToSay ==
    << "*", "I", " ", "d", "o", "n", "'", "t", " ", "h", "a", "v",
       "e", " ", "a", "n", "y", "t", "h", "i", "n", "g", " ", "t",
       "o", " ", "s", "a", "y", ".", "*" >>

Min(a, b) == IF a < b THEN a ELSE b
Max(S) == CHOOSE k \in S : \A j \in S : j <= k

\* text.rfind(ch, lo, hi): the last index (from 0) of ch in text[lo:hi], or -1
Rfind(text, ch, lo, hi) ==
    LET S == {k \in (lo + 1)..Min(hi, Len(text)) : text[k] = ch} IN
    IF S = {} THEN -1 ELSE Max(S) - 1

\* text[k:] starts with pat (k from 1)
StartsWith(text, k, pat) ==
    /\ k + Len(pat) - 1 <= Len(text)
    /\ SubSeq(text, k, k + Len(pat) - 1) = pat

\* put new in the place of the old that sits at each position of P
RECURSIVE ReplaceAt(_, _, _, _)
ReplaceAt(text, P, old, new) ==
    IF P = {} THEN text
    ELSE LET k == Max(P) IN
         ReplaceAt(SubSeq(text, 1, k - 1) \o new
                       \o SubSeq(text, k + Len(old), Len(text)),
                   P \ {k}, old, new)

\* text.replace(old, new), for an old that cannot overlap itself
Replace(text, old, new) ==
    ReplaceAt(text,
              {k \in 1..Len(text) : text[k] = old[1] /\ StartsWith(text, k, old)},
              old, new)

\* the regular expression of discord.utils.escape_mentions matches at k:
\* @(everyone|here|[!&]?[0-9]{17,20})
MentionAt(text, k) ==
    /\ text[k] = "@"
    /\ \/ StartsWith(text, k + 1, Tail(Everyone))
       \/ StartsWith(text, k + 1, Tail(Here))
       \/ LET d == IF k < Len(text) /\ text[k + 1] \in {"!", "&"}
                   THEN k + 2 ELSE k + 1 IN
          /\ d + 16 <= Len(text)
          /\ \A j \in d..(d + 16) : text[j] \in DigitChars

\* discord.utils.escape_mentions(text): '@​' for the '@' of each match
escape_mentions(text) ==
    ReplaceAt(text, {k \in 1..Len(text) : MentionAt(text, k)},
              <<"@">>, <<"@", ZeroWidthSpace>>)

\* DiscordResponse.sanitize
sanitize(message) ==
    LET stripped == strip(message)
        non_mentioned ==
            Replace(Replace(stripped, Everyone,
                            <<"@", ZeroWidthSpace>> \o Tail(Everyone)),
                    Here, <<"@", ZeroWidthSpace>> \o Tail(Here))
    IN escape_mentions(non_mentioned)

\* if i > 10: break
TooManyNever(i) == FALSE
TooMany(i) == i > MaxChunks

\* the loop of write from its head to its next await: the next chunk to
\* send, or the end of the loop
ChunkLoop(rec) ==
    LET i == rec.i + 1
        remaining == rec.message_remaining
        found == Rfind(remaining, "\n", 0, SegmentLimit)
        split_index ==
            IF found # -1 THEN found
            ELSE IF Len(remaining) <= SegmentLimit
                 THEN Len(remaining) ELSE SegmentLimit
        slice == SubSeq(remaining, 1, split_index)
        whole == /\ Len(slice) = 0
                 /\ 0 < Len(remaining) /\ Len(remaining) <= SegmentLimit
        chunk_to_send == IF whole THEN remaining ELSE slice
    IN
    IF rec.done THEN [rec EXCEPT !.pc = "done"]
    ELSE IF TooMany(i) THEN [rec EXCEPT !.i = i, !.pc = "done"]
    ELSE IF Len(chunk_to_send) = 0
         THEN [rec EXCEPT !.i = i, !.split_index = split_index,
                          !.chunk_to_send = chunk_to_send,
                          !.done = TRUE, !.pc = "done"]
         ELSE [rec EXCEPT !.i = i, !.split_index = split_index,
                          !.chunk_to_send = chunk_to_send,
                          !.done = whole, !.pc = "write_send"]

\* write(message, s) up to its first await
Write(rec, text) ==
    LET sanitized == sanitize(text)
        value == IF sanitized = <<>> THEN NothingToSay ELSE sanitized
    IN
    IF Len(value) >= SegmentLimit
    THEN ChunkLoop([rec EXCEPT !.value = value, !.message_remaining = value,
                               !.i = 0, !.done = FALSE, !.referenced = FALSE])
    ELSE [rec EXCEPT !.value = value, !.i = 0, !.chunk_to_send = value,
                     !.pc = "write_single"]

\* after a chunk is sent: skip the newline the cut was made at
AdvanceSkipsAlways(rec) ==
    LET remaining == rec.message_remaining
        rest == SubSeq(remaining, rec.split_index + 2, Len(remaining))
        r == [rec EXCEPT !.message_remaining = rest, !.prev = remaining,
                         !.skipped = Append(@, TRUE)]
    IN
    IF Len(rest) = 0
    THEN [r EXCEPT !.done = TRUE, !.pc = "done"]
    ELSE [r EXCEPT !.pc = "write_sleep"]

\* after a chunk is sent: skip the newline the cut was made at (history:
\* prev is the text that remained before, skipped tells for each segment
\* whether a newline was skipped after it)
Advance(rec) ==
    LET remaining == rec.message_remaining
        k == rec.split_index
        newline == k < Len(remaining) /\ remaining[k + 1] = "\n"
        rest == IF newline
                THEN SubSeq(remaining, k + 2, Len(remaining))
                ELSE SubSeq(remaining, k + 1, Len(remaining))
        r == [rec EXCEPT !.message_remaining = rest, !.prev = remaining,
                         !.skipped = Append(@, newline)]
    IN
    IF Len(rest) = 0
    THEN [r EXCEPT !.done = TRUE, !.pc = "done"]
    ELSE [r EXCEPT !.pc = "write_sleep"]

(***************************************************************************)
(* The return of chat, and on_message from one call to the next.           *)
(***************************************************************************)
\* 'I am sorry, I am unable to respond at the moment.'
FallbackPhrase ==
    << "I", " ", "a", "m", " ", "s", "o", "r", "r", "y", ",", " ",
       "I", " ", "a", "m", " ", "u", "n", "a", "b", "l", "e", " ",
       "t", "o", " ", "r", "e", "s", "p", "o", "n", "d", " ", "a",
       "t", " ", "t", "h", "e", " ", "m", "o", "m", "e", "n", "t",
       "." >>

\* the end of chat: if not response_message: return the phrase; else return
\* response_message
ChatReturn(rec) ==
    [rec EXCEPT !.pc = "done",
                !.retval = IF rec.response_message = <<>>
                           THEN FallbackPhrase ELSE rec.response_message]

\* self.message(message, content): '**(<id>) at <time> <author>(<id>) said in
\* <chat>**: ' and the content
MessagePrefix == <<"*", "*", ":", " ">>
Message(content) == MessagePrefix \o content

\* 'RESET'
ResetWord == <<"R", "E", "S", "E", "T">>

\* message.author.name + ' tried to reset the chat, but was denied.'
DeniedNote(user) ==
    <<user>> \o
    << " ", "t", "r", "i", "e", "d", " ", "t", "o", " ", "r", "e",
       "s", "e", "t", " ", "t", "h", "e", " ", "c", "h", "a", "t",
       ",", " ", "b", "u", "t", " ", "w", "a", "s", " ", "d", "e",
       "n", "i", "e", "d", "." >>

\* 'I am sorry, I encountered an error while trying to respond.'
Apology ==
    << "I", " ", "a", "m", " ", "s", "o", "r", "r", "y", ",", " ",
       "I", " ", "e", "n", "c", "o", "u", "n", "t", "e", "r", "e",
       "d", " ", "a", "n", " ", "e", "r", "r", "o", "r", " ", "w",
       "h", "i", "l", "e", " ", "t", "r", "y", "i", "n", "g", " ",
       "t", "o", " ", "r", "e", "s", "p", "o", "n", "d", "." >>

\* finally: task.cancel(), and on_message returns
MsgFinallyLeaks(rec, how) == [rec EXCEPT !.pc = "done", !.ended = how]
MsgFinally(rec, how) ==
    [rec EXCEPT !.pc = "done", !.ended = how,
                !.typing = IF @ = "running" THEN "cancelled" ELSE @]

\* on_message from content = message.content.replace(...).strip() to its next
\* await: nothing to do for an empty content, the legacy reset of the admin,
\* or the typing task and the save of the user's turn (for a RESET of anyone
\* else: of the note that it was denied)
Addressed(rec) ==
    LET content == strip(rec.raw)
        said == IF content = ResetWord THEN DeniedNote(rec.user) ELSE content
    IN
    IF content = <<>> THEN [rec EXCEPT !.pc = "done", !.ended = "blank"]
    ELSE IF content = ResetWord /\ rec.user = admin_id
         THEN [rec EXCEPT !.stage = "reset", !.pc = "reset_flush"]
         ELSE CallSave([rec EXCEPT !.stage = "save", !.typing = "running",
                                   !.text = said],
                       rec.chan, Message(said), "user", "done")

\* on_message when the call it awaited has returned (pc is done) or raised
MsgResume(rec) ==
    IF rec.stage = "context" /\ rec.pc = "done"
    THEN (IF rec.rare THEN Addressed(rec) ELSE [rec EXCEPT !.ended = "context"])
    ELSE IF rec.stage = "reset" /\ rec.pc = "done"
    THEN [rec EXCEPT !.ended = "reset"]
    ELSE IF rec.stage = "save" /\ rec.pc = "done"
    THEN [rec EXCEPT !.stage = "chat", !.pc = "chat_load"]
    ELSE IF rec.stage = "chat" /\ rec.pc = "done"
    THEN Write([rec EXCEPT !.stage = "write"], rec.retval)
    ELSE IF rec.stage = "write" /\ rec.pc = "done"
    THEN [rec EXCEPT !.pc = "msg_sleep"]
    ELSE IF rec.stage \in {"chat", "write"} /\ rec.pc = "raised"
    THEN Write([rec EXCEPT !.stage = "apology"], Apology)
    ELSE IF rec.stage = "apology" /\ rec.pc = "done"
    THEN MsgFinally(rec, "apologized")
    ELSE IF rec.stage = "apology" /\ rec.pc = "raised"
    THEN MsgFinally(rec, "failed")
    ELSE rec

\* a call has returned to its caller, which runs on to its next await
Resume(rec) ==
    LET r == IF rec.pc = "chat_return" THEN ChatReturn(rec) ELSE rec IN
    IF r.op = "msg" /\ r.ended = "" THEN MsgResume(r) ELSE r

(***************************************************************************)
(* save_message: the append.                                               *)
(***************************************************************************)
\* a handler calls save_message(channel_id, message, 'user')
StartSave(t, messages) ==
    \E c \in Channels, m \in messages :
        /\ Launch(t, CallSave([IdleTask EXCEPT !.op = "save", !.chan = c],
                              c, m, "user", "done"))
        /\ UNCHANGED <<config, store, nfail,
                       last, hist, napp>>

\* messages = await self.load_channel(channel_id): GET answers
SaveLoadOk(t) ==
    /\ task[t].pc = "save_load"
    /\ Step(t, [task[t] EXCEPT !.pc = "save_set",
                               !.messages = Loaded(task[t].chan)])
    /\ UNCHANGED <<config, store, budget, nfail,
                   last, hist, napp>>

\* ... or GET raises: load_channel logs it and returns [] (history: pre is
\* what the channel held)
SaveLoadRaises(t) ==
    /\ task[t].pc = "save_load"
    /\ Raises
    /\ Step(t, [task[t] EXCEPT !.pc = "raised", !.failed = TRUE])
    /\ UNCHANGED <<config, store, budget,
                   last, hist, napp>>
SaveLoadFails(t) ==
    /\ task[t].pc = "save_load"
    /\ Raises
    /\ Step(t, [task[t] EXCEPT !.pc = "save_set", !.messages = <<>>,
                               !.failed = TRUE,
                               !.pre = IF task[t].op = "save"
                                       THEN Loaded(task[t].chan) ELSE @])
    /\ UNCHANGED <<config, store, budget,
                   last, hist, napp>>

\* the list save_message writes: evict from the front, append the new turn
NewMessagesMerged(t) ==
    Append(Evict(Loaded(task[t].chan), chat_max_length),
           Turn(task[t].role, task[t].content))
NewMessages(t) ==
    Append(Evict(task[t].messages, chat_max_length),
           Turn(task[t].role, task[t].content))

\* await self.redis.set(key, json.dumps(messages), ex=7 days): SET answers
SaveSetOk(t) ==
    LET c == task[t].chan IN
    /\ task[t].pc = "save_set"
    /\ store' = [store EXCEPT ![c] = <<NewMessages(t)>>]
    /\ last' = [last EXCEPT ![c] = t]
    /\ Step(t, Resume([task[t] EXCEPT !.pc = task[t].ret, !.persisted = TRUE,
                                       !.nsaved = @ + 1]))
    /\ IF task[t].op = "save" /\ ~Overlap(t) /\ ~task[t].failed
       THEN Record(c, Turn(task[t].role, task[t].content))
       ELSE Forget(c)
    /\ UNCHANGED <<config, budget, nfail>>

\* ... or SET raises: save_message logs it and returns
SaveSetFails(t) ==
    /\ task[t].pc = "save_set"
    /\ Raises
    /\ Step(t, Resume([task[t] EXCEPT !.pc = task[t].ret, !.failed = TRUE]))
    /\ Forget(task[t].chan)
    /\ UNCHANGED <<config, store, budget, last>>

(***************************************************************************)
(* reset_command: the /reset application command.                          *)
(***************************************************************************)
\* the texts of reset_command's replies
ReplyDenied == "You are not authorized to reset the chat."
ReplyNoChannel == "Unable to determine channel to reset."
ReplyReset == "Chat reset."
ReplyError == "An error occurred while resetting the chat."

\* interaction.followup.send(text): the requester gets the reply, or the send
\* raises and the handler goes on at onError
Send(t, text, onError) ==
    \/ Step(t, [task[t] EXCEPT !.pc = "done", !.reply = text])
    \/ Step(t, [task[t] EXCEPT !.pc = onError, !.sendfail = TRUE])

\* the requester is refused: an admin is configured and it is someone else
DeniedNever(user) == FALSE
Denied(user) == admin_id # "" /\ user # admin_id

\* Discord invokes reset_command; after interaction.response.defer() the
\* authorization check and the channel check, each ending in a reply
ResetAuth(rec) ==
    IF Denied(rec.user)
    THEN [rec EXCEPT !.pc = "reset_denied"]
    ELSE IF ~rec.hasChan
         THEN [rec EXCEPT !.pc = "reset_nochan"]
         ELSE [rec EXCEPT !.pc = "reset_flush"]

StartReset(t, hasChannel) ==
    \E c \in Channels, h \in hasChannel, u \in UserIds :
        /\ Launch(t, ResetAuth([IdleTask EXCEPT !.op = "reset", !.chan = c,
                                                !.hasChan = h, !.user = u,
                                                !.pre = Loaded(c)]))
        /\ UNCHANGED <<config, store, nfail,
                       last, hist, napp>>

\* await interaction.followup.send('You are not authorized to reset the chat.')
ResetDenied(t) ==
    /\ task[t].pc = "reset_denied"
    /\ Send(t, ReplyDenied, "raised")
    /\ UNCHANGED <<config, store, budget, nfail,
                   last, hist, napp>>

\* await interaction.followup.send('Unable to determine channel to reset.')
ResetNoChannel(t) ==
    /\ task[t].pc = "reset_nochan"
    /\ Send(t, ReplyNoChannel, "raised")
    /\ UNCHANGED <<config, store, budget, nfail,
                   last, hist, napp>>

\* after flush_channel: the call of save_message with the seed greeting (in
\* reset_command the reply follows, in on_message the return)
Reseed(rec) ==
    CallSave(rec, rec.chan, SeedGreeting, "assistant",
             IF rec.op = "msg" THEN "done" ELSE "reset_reply")

\* await self.flush_channel(channel_id): DEL answers
ResetFlushSkipped(t) ==
    /\ task[t].pc = "reset_flush"
    /\ Forget(task[t].chan)
    /\ Step(t, Reseed([task[t] EXCEPT !.flushed = TRUE]))
    /\ UNCHANGED <<config, store, budget, nfail, last>>
ResetFlushOk(t) ==
    LET c == task[t].chan IN
    /\ task[t].pc = "reset_flush"
    /\ store' = [store EXCEPT ![c] = <<>>]
    /\ last' = [last EXCEPT ![c] = t]
    /\ Forget(c)
    /\ Step(t, Reseed([task[t] EXCEPT !.flushed = TRUE]))
    /\ UNCHANGED <<config, budget, nfail>>

\* ... or DEL raises: flush_channel logs it and returns
ResetFlushFails(t) ==
    /\ task[t].pc = "reset_flush"
    /\ Raises
    /\ Forget(task[t].chan)
    /\ Step(t, Reseed([task[t] EXCEPT !.failed = TRUE]))
    /\ UNCHANGED <<config, store, budget, last>>

\* await interaction.followup.send('Chat reset.')
ResetReply(t) ==
    /\ task[t].pc = "reset_reply"
    /\ Send(t, ReplyReset, "reset_except")
    /\ UNCHANGED <<config, store, budget, nfail,
                   last, hist, napp>>

\* except Exception: followup.send('An error occurred while resetting the chat.')
ResetExcept(t) ==
    /\ task[t].pc = "reset_except"
    /\ Send(t, ReplyError, "raised")
    /\ UNCHANGED <<config, store, budget, nfail,
                   last, hist, napp>>

(***************************************************************************)
(* chat: one backend call on the channel's session.                        *)
(***************************************************************************)
\* characters json.dumps writes as a two-character escape
Escaped == {"\n", "\t", "\"", "\\"}

\* len(json.dumps(text)) without the quotes
RECURSIVE EscLen(_)
EscLen(text) ==
    IF text = <<>> THEN 0
    ELSE (IF Head(text) \in Escaped THEN 2 ELSE 1) + EscLen(Tail(text))

\* len(json.dumps(turn)): {"role": "<role>", "content": "<content>"}
TurnJsonLen(turn) ==
    27 + (IF turn.role = "user" THEN 4 ELSE 9) + EscLen(turn.content)

RECURSIVE TurnsJsonLen(_)
TurnsJsonLen(messages) ==
    IF messages = <<>> THEN 0
    ELSE TurnJsonLen(Head(messages)) + TurnsJsonLen(Tail(messages))

\* len(json.dumps(messages)): the brackets, the turns, ', ' between them
JsonLen(messages) ==
    IF messages = <<>> THEN 2
    ELSE 2 + TurnsJsonLen(messages) + 2 * (Len(messages) - 1)

\* while excess > 0 and local_messages: pop(0); excess = len(json.dumps(..)) - ctx * 4
RECURSIVE TrimWhile(_, _)
TrimWhile(local_messages, excess) ==
    IF excess > 0 /\ local_messages # <<>>
    THEN TrimWhile(Tail(local_messages),
                   JsonLen(Tail(local_messages)) - ctx * 4)
    ELSE local_messages

\* if len(total_context) > self.ctx * 4: drop the oldest turns
RECURSIVE TrimNewest(_)
TrimNewest(local_messages) ==
    IF JsonLen(local_messages) > ctx * 4 /\ local_messages # <<>>
    THEN TrimNewest(SubSeq(local_messages, 1, Len(local_messages) - 1))
    ELSE local_messages
Trim(local_messages) ==
    IF JsonLen(local_messages) > ctx * 4
    THEN TrimWhile(local_messages, JsonLen(local_messages) - ctx * 4)
    ELSE local_messages

\* where chat goes after the load: the backend call it awaits
BackendCall ==
    IF backend = "ollama"
    THEN (IF stream THEN "chat_stream" ELSE "chat_single")
    ELSE "chat_openai"

\* a handler calls chat(channel_id, r), which awaits load_channel
StartChat(t) ==
    \E c \in Channels :
        /\ Launch(t, [IdleTask EXCEPT !.op = "chat", !.pc = "chat_load",
                                      !.chan = c])
        /\ UNCHANGED <<config, store, nfail, last, hist, napp>>

\* local_messages = await self.load_channel(channel_id), trimmed: GET answers
ChatLoadOk(t) ==
    /\ task[t].pc = "chat_load"
    /\ Step(t, [task[t] EXCEPT !.pc = BackendCall,
                               !.local_messages = Trim(Loaded(task[t].chan))])
    /\ UNCHANGED <<config, store, budget, nfail, last, hist, napp>>

\* ... or GET raises: load_channel logs it and returns []
ChatLoadFails(t) ==
    /\ task[t].pc = "chat_load"
    /\ Raises
    /\ Step(t, [task[t] EXCEPT !.pc = BackendCall,
                               !.local_messages = Trim(<<>>),
                               !.failed = TRUE])
    /\ UNCHANGED <<config, store, budget, last, hist, napp>>

\* the backend has answered with text: if response_message: await
\* self.save_message(channel_id, response_message, 'assistant'); then on at ret
GotText(rec, text, ret) ==
    LET r == [rec EXCEPT !.response_message = text] IN
    IF text # <<>>
    THEN Resume(CallSave([r EXCEPT !.ncalls = @ + 1],
                         r.chan, text, "assistant", ret))
    ELSE Resume([r EXCEPT !.pc = ret])

\* except Exception as e: ... return the phrase (the handler around the whole
\* of chat, and the one around the openai call)
ChatExceptReraise(rec) == [rec EXCEPT !.pc = "raised", !.outcome = "error"]
ChatExcept(rec) ==
    [rec EXCEPT !.pc = "done", !.retval = FallbackPhrase, !.outcome = "error"]

\* async for part in self.ollama.chat(stream=True, ...): one more part
ChatStreamPart(t) ==
    /\ task[t].pc = "chat_stream"
    /\ task[t].nparts < MaxParts
    /\ \E chunk \in Chunks :
          Step(t, [task[t] EXCEPT !.nparts = @ + 1,
                                  !.produced = @ \o chunk,
                                  !.response_message =
                                      IF chunk # <<>> THEN @ \o chunk ELSE @])
    /\ UNCHANGED <<config, store, budget, nfail, last, hist, napp>>

\* the stream ends
ChatStreamEndAgain(t) ==
    /\ task[t].pc = "chat_stream"
    /\ Step(t, GotText([task[t] EXCEPT !.outcome = "text"],
                       task[t].response_message, "chat_single"))
    /\ UNCHANGED <<config, store, budget, nfail, last, hist, napp>>
ChatStreamEnd(t) ==
    /\ task[t].pc = "chat_stream"
    /\ Step(t, GotText([task[t] EXCEPT !.outcome = "text"],
                       task[t].response_message, "chat_return"))
    /\ UNCHANGED <<config, store, budget, nfail, last, hist, napp>>

\* the streaming call raises TypeError: except TypeError: the call without
\* streaming
ChatStreamTypeError(t) ==
    /\ task[t].pc = "chat_stream"
    /\ Step(t, [task[t] EXCEPT !.pc = "chat_single", !.produced = <<>>])
    /\ UNCHANGED <<config, store, budget, nfail, last, hist, napp>>

\* the streaming call raises anything else
ChatStreamError(t) ==
    /\ task[t].pc = "chat_stream"
    /\ Step(t, Resume(ChatExcept(task[t])))
    /\ UNCHANGED <<config, store, budget, nfail, last, hist, napp>>

\* data = await self.ollama.chat(stream=False, ...); response_message =
\* data.get('message', {}).get('content', '')
ChatSingleOk(t) ==
    /\ task[t].pc = "chat_single"
    /\ \E text \in Texts :
          Step(t, GotText([task[t] EXCEPT !.outcome = "text", !.produced = text],
                          text, "chat_return"))
    /\ UNCHANGED <<config, store, budget, nfail, last, hist, napp>>

\* ... or the call raises
ChatSingleError(t) ==
    /\ task[t].pc = "chat_single"
    /\ Step(t, Resume(ChatExcept(task[t])))
    /\ UNCHANGED <<config, store, budget, nfail, last, hist, napp>>

\* data = await asyncio.to_thread(call_openai); response_message is the
\* content found in data, '' when there is none
ChatOpenaiOk(t) ==
    /\ task[t].pc = "chat_openai"
    /\ \E text \in Texts :
          Step(t, GotText([task[t] EXCEPT !.outcome = "text", !.produced = text],
                          text, "chat_return"))
    /\ UNCHANGED <<config, store, budget, nfail, last, hist, napp>>

\* ... or the call raises
ChatOpenaiError(t) ==
    /\ task[t].pc = "chat_openai"
    /\ Step(t, Resume(ChatExcept(task[t])))
    /\ UNCHANGED <<config, store, budget, nfail, last, hist, napp>>

(***************************************************************************)
(* DiscordResponse.write: the calls and their sends.                       *)
(***************************************************************************)
\* a run of n characters ch
Run(ch, n) == [k \in 1..n |-> ch]

\* the texts handed to write: empty and blank ones, short ones, texts around
\* the segment limit, with and without newlines, with mentions, and texts
\* longer than ten segments
WriteTexts ==
    LET L == SegmentLimit
        nl == <<"\n">>
        id == Run("1", 17)
    IN
    { <<>>, <<" ", "\n">>, <<"h", "i">>,
      Everyone, <<" ">> \o Here \o <<" ">>,
      <<"<", "@">> \o id \o <<">">>,
      Run("a", L - 1), Run("a", L), Run("a", L + 1),
      <<" ">> \o Run("a", L) \o nl,
      Run("a", 2 * L + 500),
      Run("a", 1500) \o nl \o Run("b", 1500),
      Run("a", 1500) \o nl \o Run("b", 400) \o nl \o Run("c", 300),
      Run("a", L - 1) \o nl \o nl \o Run("b", 100),
      Run("a", L - 1) \o nl \o nl \o Run("b", L + 500),
      Run("a", L) \o nl \o Run("b", 10),
      Everyone \o Run("a", L - 10),
      <<"<", "@", "!">> \o id \o <<">">> \o Run("a", L - 21),
      Run("a", MaxChunks * L - 500),
      Run("a", MaxChunks * L), Run("a", MaxChunks * L + 500),
      Run("a", 5 * L) \o nl \o Run("b", 6 * L) }

\* a handler calls r.write(message, text)
StartWrite(t) ==
    \E text \in WriteTexts :
        /\ Launch(t, Write([IdleTask EXCEPT !.op = "write"], text))
        /\ UNCHANGED <<config, store, nfail, last, hist, napp>>

\* await self.channel.send(chunk_to_send, ...): the segment is sent
WriteSendOk(t) ==
    /\ task[t].pc = "write_send"
    /\ Step(t, Resume(Advance([task[t] EXCEPT
                                   !.referenced = TRUE,
                                   !.sent = Append(@, task[t].chunk_to_send)])))
    /\ UNCHANGED <<config, store, budget, nfail, last, hist, napp>>

\* ... or the send raises, and write with it
WriteSendFails(t) ==
    /\ task[t].pc = "write_send"
    /\ Step(t, Resume([task[t] EXCEPT !.pc = "raised"]))
    /\ UNCHANGED <<config, store, budget, nfail, last, hist, napp>>

\* await asyncio.sleep(...), then the loop again
WriteSleep(t) ==
    /\ task[t].pc = "write_sleep"
    /\ Step(t, Resume(ChunkLoop(task[t])))
    /\ UNCHANGED <<config, store, budget, nfail, last, hist, napp>>

\* await self.channel.send(value, reference=message): the one segment is sent
WriteSingleOk(t) ==
    /\ task[t].pc = "write_single"
    /\ Step(t, Resume([task[t] EXCEPT !.pc = "done",
                                      !.sent = Append(@, task[t].chunk_to_send),
                                      !.skipped = Append(@, FALSE)]))
    /\ UNCHANGED <<config, store, budget, nfail, last, hist, napp>>

\* ... or the send raises
WriteSingleFails(t) ==
    /\ task[t].pc = "write_single"
    /\ Step(t, Resume([task[t] EXCEPT !.pc = "raised"]))
    /\ UNCHANGED <<config, store, budget, nfail, last, hist, napp>>

(***************************************************************************)
(* on_message: a message in the chat channel from someone else.            *)
(***************************************************************************)
\* the contents of the messages: the legacy reset word, a word, a blank
Said == {ResetWord, <<"a">>, <<" ">>}

\* Discord delivers a message that passes the checks of lines 203-220.  When
\* it is not addressed to the bot (no mention, a bot as author, @everyone or
\* @here) it is saved for context, and only rarely (rare: random.random() *
\* 1000 is at most 0.1) the handler goes on with it as if it were addressed.
StartMsg(t) ==
    \E c \in Channels, u \in UserIds, raw \in Said,
       addressed \in BOOLEAN, rare \in BOOLEAN :
        LET rec == [IdleTask EXCEPT !.op = "msg", !.chan = c, !.user = u,
                                    !.raw = raw, !.rare = rare,
                                    !.pre = Loaded(c)]
        IN
        /\ addressed => ~rare
        /\ Launch(t, IF addressed
                     THEN Addressed(rec)
                     ELSE CallSave([rec EXCEPT !.stage = "context"],
                                   c, Message(raw), "user", "done"))
        /\ UNCHANGED <<config, store, nfail, last, hist, napp>>

\* the typing task (thinking) ends by itself: its sleep is over, or typing()
\* raised
ThinkingEnds(t) ==
    /\ InFlight(t)
    /\ task[t].typing = "running"
    /\ Step(t, [task[t] EXCEPT !.typing = "ended"])
    /\ UNCHANGED <<config, store, budget, nfail, last, hist, napp>>

\* await asyncio.sleep(0.5) after the response is written; then finally
MsgSleep(t) ==
    /\ task[t].pc = "msg_sleep"
    /\ Step(t, MsgFinally(task[t], "delivered"))
    /\ UNCHANGED <<config, store, budget, nfail, last, hist, napp>>

(***************************************************************************)
(* The store under concurrent appends and resets.                          *)
(***************************************************************************)
\* turns written by an earlier run of the bot, oldest first
Digits == <<"1", "2", "3", "4", "5", "6", "7", "8", "9">>
OldTurns == [i \in 1..MaxChatMaxLength |-> Turn("user", <<"o", Digits[i]>>)]

\* what Redis holds for a channel when the bot starts: no key, or a full
\* session (max turns) of an earlier run
EarlierSessions(max) == {<<>>, <<SubSeq(OldTurns, 1, max)>>}

Init ==
    /\ chat_max_length \in 1..MaxChatMaxLength
    /\ msg_max_chars = 3
    /\ admin_id \in AdminIds
    /\ ctx = 4096 /\ stream = FALSE /\ backend = "ollama"
    /\ store \in [Channels -> EarlierSessions(chat_max_length)]
    /\ task = [t \in Tasks |-> IdleTask]
    /\ budget = Cardinality(Tasks)
    /\ nfail = 0
    /\ last = [c \in Channels |-> 0]
    /\ hist = [c \in Channels |-> <<>>]
    /\ napp = [c \in Channels |-> 0]

Next ==
    \E t \in Tasks :
        \/ StartSave(t, FewMessages)
        \/ SaveLoadOk(t)
        \/ SaveLoadFails(t)
        \/ SaveSetOk(t)
        \/ SaveSetFails(t)
        \/ StartReset(t, {TRUE})
        \/ ResetDenied(t)
        \/ ResetFlushOk(t)
        \/ ResetFlushFails(t)
        \/ ResetReply(t)
        \/ ResetExcept(t)

Spec == Init /\ [][Next]_vars

(***************************************************************************)
(* The store under one operation after another.                            *)
(***************************************************************************)
InitSeq ==
    /\ chat_max_length \in 1..MaxChatMaxLength
    /\ msg_max_chars \in MsgMaxCharsChoices
    /\ admin_id \in AdminIds
    /\ ctx = 4096 /\ stream = FALSE /\ backend = "ollama"
    /\ store \in [Channels -> EarlierSessions(chat_max_length)]
    /\ task = [t \in Tasks |-> IdleTask]
    /\ budget = MaxSeqOps
    /\ nfail = 0
    /\ last = [c \in Channels |-> 0]
    /\ hist = [c \in Channels |-> <<>>]
    /\ napp = [c \in Channels |-> 0]

NextSeq ==
    \E t \in {1} :
        \/ StartSave(t, Messages)
        \/ SaveLoadOk(t)
        \/ SaveLoadFails(t)
        \/ SaveSetOk(t)
        \/ SaveSetFails(t)
        \/ StartReset(t, BOOLEAN)
        \/ ResetDenied(t)
        \/ ResetNoChannel(t)
        \/ ResetFlushOk(t)
        \/ ResetFlushFails(t)
        \/ ResetReply(t)
        \/ ResetExcept(t)

SpecSeq == InitSeq /\ [][NextSeq]_vars

(***************************************************************************)
(* Appends and resets over a store that may hold unreadable values.        *)
(***************************************************************************)
InitStore ==
    /\ chat_max_length \in 1..MaxChatMaxLength
    /\ msg_max_chars = 3
    /\ admin_id \in AdminIds
    /\ ctx = 4096 /\ stream = FALSE /\ backend = "ollama"
    /\ store \in [Channels -> EarlierSessions(chat_max_length) \cup {Corrupt}]
    /\ task = [t \in Tasks |-> IdleTask]
    /\ budget = MaxStoreOps
    /\ nfail = 0
    /\ last = [c \in Channels |-> 0]
    /\ hist = [c \in Channels |-> <<>>]
    /\ napp = [c \in Channels |-> 0]

NextStore ==
    \E t \in {1} :
        \/ StartSave(t, FewMessages)
        \/ SaveLoadOk(t)
        \/ SaveLoadFails(t)
        \/ SaveSetOk(t)
        \/ SaveSetFails(t)
        \/ StartReset(t, {TRUE})
        \/ ResetDenied(t)
        \/ ResetFlushOk(t)
        \/ ResetFlushFails(t)
        \/ ResetReply(t)
        \/ ResetExcept(t)

SpecStore == InitStore /\ [][NextStore]_vars

(***************************************************************************)
(* Chat calls, one after another.                                          *)
(***************************************************************************)
InitChat ==
    /\ chat_max_length \in 1..MaxChatMaxLength
    /\ msg_max_chars \in MsgMaxCharsChoices
    /\ admin_id = ""
    /\ ctx \in CtxChoices /\ stream \in BOOLEAN /\ backend \in {"ollama", "openai"}
    /\ store \in [Channels -> EarlierSessions(chat_max_length)]
    /\ task = [t \in Tasks |-> IdleTask]
    /\ budget = MaxChatOps
    /\ nfail = 0
    /\ last = [c \in Channels |-> 0]
    /\ hist = [c \in Channels |-> <<>>]
    /\ napp = [c \in Channels |-> 0]

NextChat ==
    \E t \in {1} :
        \/ StartChat(t)
        \/ ChatLoadOk(t)
        \/ ChatLoadFails(t)
        \/ ChatStreamPart(t)
        \/ ChatStreamEnd(t)
        \/ ChatStreamTypeError(t)
        \/ ChatStreamError(t)
        \/ ChatSingleOk(t)
        \/ ChatSingleError(t)
        \/ ChatOpenaiOk(t)
        \/ ChatOpenaiError(t)
        \/ SaveLoadOk(t)
        \/ SaveLoadFails(t)
        \/ SaveSetOk(t)
        \/ SaveSetFails(t)

SpecChat == InitChat /\ [][NextChat]_vars

(***************************************************************************)
(* One call of write.                                                      *)
(***************************************************************************)
InitWrite ==
    /\ chat_max_length = 1
    /\ msg_max_chars = 3
    /\ admin_id = ""
    /\ ctx = 4096 /\ stream = FALSE /\ backend = "ollama"
    /\ store = [c \in Channels |-> <<>>]
    /\ task = [t \in Tasks |-> IdleTask]
    /\ budget = 1
    /\ nfail = 0
    /\ last = [c \in Channels |-> 0]
    /\ hist = [c \in Channels |-> <<>>]
    /\ napp = [c \in Channels |-> 0]

NextWrite ==
    \E t \in {1} :
        \/ StartWrite(t)
        \/ WriteSendOk(t)
        \/ WriteSendFails(t)
        \/ WriteSleep(t)
        \/ WriteSingleOk(t)
        \/ WriteSingleFails(t)

SpecWrite == InitWrite /\ [][NextWrite]_vars

(***************************************************************************)
(* One message handled by on_message.                                      *)
(***************************************************************************)
InitMsg ==
    /\ chat_max_length \in 1..MaxChatMaxLength
    /\ msg_max_chars = 3
    /\ admin_id \in AdminIds
    /\ ctx = 4096 /\ stream = FALSE /\ backend = "ollama"
    /\ store \in [Channels -> EarlierSessions(chat_max_length)]
    /\ task = [t \in Tasks |-> IdleTask]
    /\ budget = 1
    /\ nfail = 0
    /\ last = [c \in Channels |-> 0]
    /\ hist = [c \in Channels |-> <<>>]
    /\ napp = [c \in Channels |-> 0]

NextMsg ==
    \E t \in {1} :
        \/ StartMsg(t)
        \/ ThinkingEnds(t)
        \/ SaveLoadOk(t)
        \/ SaveLoadFails(t)
        \/ SaveSetOk(t)
        \/ SaveSetFails(t)
        \/ ResetFlushOk(t)
        \/ ResetFlushFails(t)
        \/ ChatLoadOk(t)
        \/ ChatLoadFails(t)
        \/ ChatSingleOk(t)
        \/ ChatSingleError(t)
        \/ WriteSingleOk(t)
        \/ WriteSingleFails(t)
        \/ MsgSleep(t)

SpecMsg == InitMsg /\ [][NextMsg]_vars

(***************************************************************************)
(* Properties of the session store and of the reset.                       *)
(***************************************************************************)
\* the elements of a sequence
Range(s) == {s[i] : i \in 1..Len(s)}

\* the turn an append or a reseed of task t writes
TurnOf(t) == Turn(task[t].role, task[t].content)

\* C1: in every reachable state, whatever the interleaving of appends and
\* resets, every channel's persisted sequence has at most chat_max_length
\* turns (chat_max_length >= 1).
SessionBounded == \A c \in Channels : Len(Loaded(c)) <= chat_max_length

\* two overlapping operations have both written a channel that is full
SessionBoundedWitness ==
    \E t \in Tasks, u \in Tasks :
        /\ t # u /\ task[t].chan = task[u].chan
        /\ task[t].op = "save" /\ task[t].persisted /\ task[t].early
        /\ task[u].persisted
        /\ Len(task[t].messages) = chat_max_length
        /\ Len(Loaded(task[t].chan)) = chat_max_length

\* C2: after more than chat_max_length appends of non-blank turns to one
\* channel, one after another and without a store failure, the stored
\* sequence has exactly chat_max_length turns and these are the most recently
\* appended ones in the order of their appends.
FifoEviction ==
    \A c \in Channels :
        napp[c] > chat_max_length =>
            /\ Len(Loaded(c)) = chat_max_length
            /\ Loaded(c) = hist[c]

\* three appends to a channel that keeps two turns, the kept two different
FifoEvictionWitness ==
    \E c \in Channels :
        /\ chat_max_length = 2 /\ napp[c] = 3
        /\ Loaded(c)[1] # Loaded(c)[2]

\* two appends to one channel have completed without error, both from the
\* same loaded sequence, and u's SET came last
BothPersisted(t, u) ==
    /\ t # u
    /\ task[t].op = "save" /\ task[u].op = "save"
    /\ task[t].pc = "done" /\ task[u].pc = "done"
    /\ task[t].persisted /\ task[u].persisted
    /\ ~task[t].failed /\ ~task[u].failed
    /\ task[t].chan = task[u].chan
    /\ task[t].messages = task[u].messages
    /\ last[task[u].chan] = u

\* the turn of t is not the turn of u and was not in the loaded sequence
OwnTurn(t, u) == TurnOf(t) # TurnOf(u) /\ TurnOf(t) \notin Range(task[u].messages)

\* C3: when two appends to one channel both load the same sequence and both
\* persist without error, the stored sequence is the one the last writer
\* built: of the two turns it holds only the last writer's, the other turn
\* is lost.
LastWriterWins ==
    \A t \in Tasks, u \in Tasks :
        BothPersisted(t, u) =>
            /\ Loaded(task[u].chan)
                  = Append(Evict(task[u].messages, chat_max_length), TurnOf(u))
            /\ OwnTurn(t, u) => TurnOf(t) \notin Range(Loaded(task[u].chan))

\* such an interleaving exists
LastWriterWinsWitness ==
    \E t \in Tasks, u \in Tasks :
        /\ BothPersisted(t, u) /\ OwnTurn(t, u)
        /\ TurnOf(u) \in Range(Loaded(task[u].chan))
        /\ TurnOf(t) \notin Range(Loaded(task[u].chan))

\* task t runs a reset whose requester is not the configured admin
DeniedReset(rec) ==
    rec.op = "reset" /\ admin_id # "" /\ rec.user # admin_id

\* C4: a reset request of someone who is not the configured admin changes no
\* channel's persisted sequence in any of its steps (it neither flushes nor
\* reseeds) and ends with the denial as its reply.
DeniedResetChangesNothing ==
    /\ [](\A t \in Tasks :
            DeniedReset(task[t]) =>
                /\ task[t].pc \in {"reset_denied", "done", "raised"}
                /\ ~task[t].flushed /\ ~task[t].persisted
                /\ task[t].pc = "done" => task[t].reply = ReplyDenied)
    /\ [][\A t \in Tasks :
            (DeniedReset(task'[t]) /\ task'[t].pc # task[t].pc) => store' = store]_vars

\* a denied reset has answered on a channel that holds a session
DeniedResetWitness ==
    \E t \in Tasks :
        /\ DeniedReset(task[t]) /\ task[t].pc = "done"
        /\ task[t].reply = ReplyDenied
        /\ Loaded(task[t].chan) # <<>>

\* an authorized reset of task t has flushed and reseeded, alone on its
\* channel and without a store failure
CleanReset(t) ==
    /\ task[t].op = "reset" /\ ~DeniedReset(task[t]) /\ task[t].hasChan
    /\ task[t].pc \in {"reset_reply", "reset_except", "done", "raised"}
    /\ ~task[t].failed /\ ~Overlap(t)

ResetAllOrNothing ==
    \A t \in Tasks :
        task[t].op = "reset" =>
            /\ task[t].reply = ReplyReset => task[t].flushed /\ task[t].persisted
            /\ task[t].failed /\ task[t].pc = "done" => task[t].reply = ReplyError

\* C7: once an authorized reset and the appends that had started before it
\* have completed (nothing else started on the channel, no store failure),
\* the channel holds the seed turn and no turn that was persisted before the
\* reset began.
ResetAtomic ==
    \A t \in Tasks :
        ( /\ task[t].op = "reset" /\ task[t].pc = "done"
          /\ task[t].reply = ReplyReset
          /\ ~task[t].late /\ nfail = 0
          /\ \A u \in Tasks : ~InFlight(u) ) =>
            /\ Turn("assistant", SeedGreeting) \in Range(Loaded(task[t].chan))
            /\ Range(Loaded(task[t].chan)) \cap Range(task[t].pre) = {}

(***************************************************************************)
(* Properties of chat.                                                     *)
(***************************************************************************)
\* the backend call of chat task t has answered with a text that is not empty
\* (a streaming call that raised TypeError counts by the call without
\* streaming that replaces it)
GaveText(t) == task[t].outcome = "text" /\ task[t].produced # <<>>

\* C8, as amended: a chat call appends one assistant turn when the backend
\* produced a text that is non-empty after trimming whitespace and no store
\* command of the call raised, and none when the backend failed or produced
\* an empty or whitespace-only text; it calls save_message once exactly when
\* the text is non-empty, and no call, the streaming-to-single-shot fallback
\* included, appends more than one assistant turn.
ChatAppendsNonBlankOnce ==
    \A t \in Tasks :
        task[t].op = "chat" =>
            /\ task[t].nsaved <= 1 /\ task[t].ncalls <= 1
            /\ task[t].pc = "done" =>
                /\ task[t].ncalls = (IF GaveText(t) THEN 1 ELSE 0)
                /\ task[t].nsaved = 1 =>
                      GaveText(t) /\ strip(task[t].produced) # <<>>
                /\ (GaveText(t) /\ strip(task[t].produced) # <<>>
                    /\ ~task[t].failed) => task[t].nsaved = 1

\* C8, as claimed: without a store failure, a chat call appends one assistant
\* turn when the backend produced a non-empty text and none otherwise.
ChatAppendsNonEmptyOnce ==
    \A t \in Tasks :
        (task[t].op = "chat" /\ task[t].pc = "done" /\ ~task[t].failed) =>
            task[t].nsaved = (IF GaveText(t) THEN 1 ELSE 0)

\* a streaming call that had delivered parts raised TypeError, and the call
\* without streaming that replaced it gave the one turn that was appended
ChatAppendsNonBlankOnceWitness ==
    \E t \in Tasks :
        /\ task[t].op = "chat" /\ task[t].pc = "done"
        /\ backend = "ollama" /\ stream /\ task[t].nparts > 0
        /\ task[t].produced = <<"h", "i">>
        /\ task[t].nsaved = 1
        /\ Loaded(task[t].chan) # <<>>
        /\ Loaded(task[t].chan)[Len(Loaded(task[t].chan))]
              = Turn("assistant", Cap(<<"h", "i">>, msg_max_chars))

\* C9: a chat call never raises to its caller; it returns the fallback phrase
\* when the backend call raised or gave an empty text, and the backend's text
\* when that text is non-empty.
ChatReturnsTextOrFallback ==
    \A t \in Tasks :
        task[t].op = "chat" =>
            /\ task[t].pc # "raised"
            /\ task[t].pc = "done" =>
                  task[t].retval = (IF GaveText(t) THEN task[t].produced
                                    ELSE FallbackPhrase)

\* a streaming call raised after it had delivered text, and chat returned the
\* fallback phrase
ChatReturnsTextOrFallbackWitness ==
    \E t \in Tasks :
        /\ task[t].op = "chat" /\ task[t].pc = "done"
        /\ task[t].outcome = "error"
        /\ task[t].nparts > 0 /\ task[t].response_message # <<>>
        /\ task[t].retval = FallbackPhrase

(***************************************************************************)
(* Properties of write.                                                    *)
(***************************************************************************)
\* C10: whatever the text, one call of write sends at most 10 segments, and
\* no segment it sends is longer than 2000 characters.
SegmentsBounded ==
    \A t \in Tasks :
        task[t].op = "write" =>
            /\ Len(task[t].sent) <= MaxChunks
            /\ \A k \in 1..Len(task[t].sent) :
                  Len(task[t].sent[k]) <= SegmentLimit

\* a call has returned after ten full segments, with text left unsent
SegmentsBoundedWitness ==
    \E t \in Tasks :
        /\ task[t].op = "write" /\ task[t].pc = "done"
        /\ Len(task[t].sent) = MaxChunks
        /\ \A k \in 1..MaxChunks : Len(task[t].sent[k]) = SegmentLimit
        /\ task[t].message_remaining # <<>>

\* the segments sent, a newline put back after each segment that one was
\* skipped after and that is followed by another segment
RECURSIVE Rebuilt(_, _)
Rebuilt(sent, skipped) ==
    IF sent = <<>> THEN <<>>
    ELSE Head(sent)
         \o (IF Head(skipped) /\ Len(sent) > 1 THEN <<"\n">> ELSE <<>>)
         \o Rebuilt(Tail(sent), Tail(skipped))

\* text starts with prefix
IsPrefix(prefix, text) ==
    Len(prefix) <= Len(text) /\ SubSeq(text, 1, Len(prefix)) = prefix

\* C11: when a call of write has returned, the segments it sent, with the
\* skipped newlines put back between them, are the sanitized text; only a call
\* that sent ten segments may leave text out, and then what it sent is a
\* prefix of the sanitized text.
SegmentsRebuildText ==
    \A t \in Tasks :
        (task[t].op = "write" /\ task[t].pc = "done") =>
            LET rebuilt == Rebuilt(task[t].sent, task[t].skipped) IN
            IF Len(task[t].sent) < MaxChunks
            THEN rebuilt = task[t].value
            ELSE IsPrefix(rebuilt, task[t].value)

\* a call of write has returned after the loop over a sanitized text of at
\* least 2000 characters without a newline
LongLine(t) ==
    /\ task[t].op = "write" /\ task[t].pc = "done"
    /\ Len(task[t].value) >= SegmentLimit
    /\ \A k \in 1..Len(task[t].value) : task[t].value[k] # "\n"

\* ceil(n / 2000)
SegmentsNeeded(n) == (n + SegmentLimit - 1) \div SegmentLimit

\* C12, as amended: for a sanitized text of n >= 2000 characters without a
\* newline, write sends exactly min(10, ceil(n / 2000)) segments, which are
\* the consecutive slices of the text in order: each has 2000 characters,
\* except the last one when no more than 10 are needed (n <= 20000), which
\* has n - 2000 * (count - 1).
LongLineSlices ==
    \A t \in Tasks :
        LongLine(t) =>
            LET n == Len(task[t].value)
                count == Min(MaxChunks, SegmentsNeeded(n))
            IN
            /\ Len(task[t].sent) = count
            /\ \A k \in 1..count :
                  /\ task[t].sent[k]
                        = SubSeq(task[t].value, (k - 1) * SegmentLimit + 1,
                                 Min(k * SegmentLimit, n))
                  /\ Len(task[t].sent[k])
                        = (IF k = count /\ SegmentsNeeded(n) <= MaxChunks
                           THEN n - SegmentLimit * (count - 1)
                           ELSE SegmentLimit)

\* C12, as claimed: ... except the last one when fewer than 10 are needed.
LongLineLengths ==
    \A t \in Tasks :
        LongLine(t) =>
            LET n == Len(task[t].value)
                count == Min(MaxChunks, SegmentsNeeded(n))
            IN
            /\ Len(task[t].sent) = count
            /\ \A k \in 1..count :
                  Len(task[t].sent[k])
                     = (IF k = count /\ SegmentsNeeded(n) < MaxChunks
                        THEN n - SegmentLimit * (count - 1)
                        ELSE SegmentLimit)

\* 4500 characters were sent as 2000, 2000 and 500
LongLineSlicesWitness ==
    \E t \in Tasks :
        /\ LongLine(t) /\ Len(task[t].value) = 2 * SegmentLimit + 500
        /\ Len(task[t].sent) = 3
        /\ Len(task[t].sent[1]) = SegmentLimit
        /\ Len(task[t].sent[2]) = SegmentLimit
        /\ Len(task[t].sent[3]) = 500

(***************************************************************************)
(* Properties of the trimming in chat.                                     *)
(***************************************************************************)
\* text ends with suffix
IsSuffix(suffix, text) ==
    /\ Len(suffix) <= Len(text)
    /\ SubSeq(text, Len(text) - Len(suffix) + 1, Len(text)) = suffix

\* chat task t awaits its backend call: nothing has been written since the
\* load, whose result was [] if it failed
AtBackend(t) ==
    /\ task[t].op = "chat"
    /\ task[t].pc \in {"chat_stream", "chat_single", "chat_openai"}

LoadedBy(t) == IF task[t].failed THEN <<>> ELSE Loaded(task[t].chan)

\* no suffix of messages with at least one turn has a serialized size within
\* ctx * 4
NothingFits(messages) ==
    \A k \in 1..Len(messages) :
        JsonLen(SubSeq(messages, k, Len(messages))) > ctx * 4

\* C13: the list chat hands to the backend is a suffix of the loaded list (the
\* turns in their order, none left out in between) whose serialized size is
\* at most ctx * 4, or the empty list when no suffix with a turn fits, and
\* it is empty only then; the trimming loop terminates (its result is
\* computed) for every loaded list.
TrimKeepsFittingSuffix ==
    \A t \in Tasks :
        AtBackend(t) =>
            /\ IsSuffix(task[t].local_messages, LoadedBy(t))
            /\ \/ JsonLen(task[t].local_messages) <= ctx * 4
               \/ task[t].local_messages = <<>> /\ NothingFits(LoadedBy(t))
            /\ task[t].local_messages = <<>> => NothingFits(LoadedBy(t))

\* the oldest turn of a loaded session was dropped and the rest was kept
TrimKeepsFittingSuffixWitness ==
    \E t \in Tasks :
        /\ AtBackend(t) /\ ~task[t].failed
        /\ task[t].local_messages # <<>>
        /\ Len(task[t].local_messages) < Len(Loaded(task[t].chan))

(***************************************************************************)
(* Properties of save_message and of the store operations.                 *)
(***************************************************************************)
\* the newest turn of channel c
Newest(c) == Loaded(c)[Len(Loaded(c))]

\* the SET of task t's save_message is the last write of its channel
Wrote(t) == task[t].persisted /\ last[task[t].chan] = t

\* C14: a turn persisted for a content longer than msg_max_chars holds
\* exactly the last msg_max_chars characters of that content, a turn
\* persisted for a content that is not longer holds the content unchanged,
\* and so no persisted turn has more than msg_max_chars characters.
CapKeepsSuffix ==
    /\ \A t \in Tasks :
          Wrote(t) =>
              LET g == task[t].given
                  stored == Newest(task[t].chan).content
                  cut == Len(g) - Len(stored)
              IN
              /\ Len(stored) = Min(Len(g), msg_max_chars)
              /\ \A k \in 1..Len(stored) : stored[k] = g[cut + k]
    /\ \A c \in Channels :
          \A k \in 1..Len(Loaded(c)) :
              Len(Loaded(c)[k].content) <= msg_max_chars

\* a content of three characters was persisted under a cap of two
CapKeepsSuffixWitness ==
    \E t \in Tasks :
        /\ task[t].op = "save" /\ Wrote(t)
        /\ msg_max_chars = 2 /\ Len(task[t].given) = 3
        /\ Newest(task[t].chan).content = SubSeq(task[t].given, 2, 3)

\* C15: no persisted turn has a content that is empty after trimming
\* whitespace, also when the content was cut by the cap, and an append of a
\* content that is empty after trimming whitespace ends at once: it reads and
\* writes nothing.
NoBlankTurns ==
    /\ \A c \in Channels :
          \A k \in 1..Len(Loaded(c)) : strip(Loaded(c)[k].content) # <<>>
    /\ \A t \in Tasks :
          (task[t].op = "save" /\ strip(task[t].given) = <<>>) =>
              /\ task[t].pc = "done"
              /\ ~task[t].persisted /\ ~task[t].failed
              /\ task[t].messages = <<>>

\* C16: the store operations fail open.  A load answers [] when GET raises
\* and when the key is absent or holds a value that cannot be deserialized;
\* an append never raises, whatever fails in it; a flush never raises (the
\* reset goes on to the reseed, and reaches its except clause only from a
\* reply that could not be sent); and a flush that succeeds leaves the
\* channel absent, also when it was absent before.
StoreFailsOpen ==
    \A t \in Tasks :
        /\ (task[t].op = "save" /\ task[t].pc = "save_set") =>
              /\ task[t].failed => task[t].messages = <<>>
              /\ Len(store[task[t].chan]) # 1 => task[t].messages = <<>>
        /\ task[t].op = "save" => task[t].pc # "raised"
        /\ task[t].op = "reset" =>
              /\ task[t].pc \in {"reset_except", "raised"} => task[t].sendfail
              /\ (task[t].flushed /\ ~task[t].persisted /\ task[t].pc = "save_load")
                    => store[task[t].chan] = <<>>

\* an append loaded [] from a channel whose value cannot be deserialized
StoreFailsOpenWitness ==
    \E t \in Tasks :
        /\ task[t].op = "save" /\ task[t].pc = "save_set"
        /\ Len(store[task[t].chan]) = Len(Corrupt)
        /\ task[t].messages = <<>>

(***************************************************************************)
(* Properties of the cuts of write.                                        *)
(***************************************************************************)
\* the positions (from 1) of the newlines in the first 2000 characters
NewlinesInWindow(text) ==
    {k \in 1..Min(SegmentLimit, Len(text)) : text[k] = "\n"}

\* C18: in the loop of write, a segment chosen from a remaining text with a
\* newline in its first 2000 characters is that text up to, not including,
\* the last such newline, and the text remaining after it starts behind that
\* newline; without such a newline the segment is the first 2000 characters,
\* or all that remains if that is less; and the loop ends only with nothing
\* remaining or with 10 segments sent.
CutsAtLastNewline ==
    \A t \in Tasks :
        (task[t].op = "write" /\ Len(task[t].value) >= SegmentLimit) =>
            /\ task[t].pc = "write_send" =>
                  LET remaining == task[t].message_remaining
                      newlines == NewlinesInWindow(remaining)
                  IN
                  task[t].chunk_to_send
                     = (IF newlines # {}
                        THEN SubSeq(remaining, 1, Max(newlines) - 1)
                        ELSE SubSeq(remaining, 1,
                                    Min(SegmentLimit, Len(remaining))))
            /\ (task[t].pc \in {"write_sleep", "done"} /\ task[t].sent # <<>>) =>
                  LET newlines == NewlinesInWindow(task[t].prev) IN
                  newlines # {} =>
                      task[t].message_remaining
                         = SubSeq(task[t].prev, Max(newlines) + 1,
                                  Len(task[t].prev))
            /\ task[t].pc = "done" =>
                  \/ task[t].message_remaining = <<>>
                  \/ Len(task[t].sent) = MaxChunks

\* what the channel held when the append of task t read it: the list it
\* loaded, or the list it could not load
Before(t) == IF task[t].failed THEN task[t].pre ELSE task[t].messages

\* C19: after an append that ran alone and whose SET succeeded, also when its
\* GET failed, the channel holds a suffix of what it held before, followed by
\* the new turn, and only as many of the oldest turns are gone as the new
\* turn needs room.
AppendKeepsNewest ==
    \A t \in Tasks :
        (task[t].op = "save" /\ task[t].pc = "done" /\ task[t].persisted
         /\ ~Overlap(t)) =>
            Loaded(task[t].chan)
               = Append(LastN(Before(t), chat_max_length - 1), TurnOf(t))

(***************************************************************************)
(* Properties of on_message.                                               *)
(***************************************************************************)
\* C17: when on_message has ended, on whichever path (the response written,
\* the backend failed, a send failed, the apology could not be sent either),
\* its typing task is not running any more: if it was started it has been
\* cancelled or has ended by itself.
TypingCancelled ==
    \A t \in Tasks :
        (task[t].op = "msg" /\ task[t].pc \in {"done", "raised"}) =>
            /\ task[t].typing # "running"
            /\ task[t].ended \in {"delivered", "apologized", "failed"} =>
                  task[t].typing \in {"cancelled", "ended"}

\* the send of the response and the send of the apology both raised, and the
\* typing task was cancelled
TypingCancelledWitness ==
    \E t \in Tasks :
        /\ task[t].op = "msg" /\ task[t].pc = "done"
        /\ task[t].ended = "failed" /\ task[t].sent = <<>>
        /\ task[t].typing = "cancelled"

\* C20: a denied reset changes nothing on the legacy path either: when the
\* content of a message is exactly RESET and its author is not the admin,
\* the session of the channel, once the handler has ended, is the session
\* there was when the message arrived.
DeniedLegacyResetChangesNothing ==
    \A t \in Tasks :
        (/\ task[t].op = "msg" /\ task[t].pc \in {"done", "raised"}
         /\ strip(task[t].raw) = ResetWord
         /\ task[t].user # admin_id
         /\ task[t].text = DeniedNote(task[t].user)) =>
            Loaded(task[t].chan) = task[t].pre

\* C21: a message contributes at most one user turn to the session of its
\* channel: on every path through on_message, the one of a message that was
\* not addressed to the bot, was saved for context and is answered all the
\* same included, save_message with role user is called at most once.
OneUserTurnPerMessage ==
    \A t \in Tasks :
        task[t].op = "msg" => task[t].nuser <= 1

====
